---- MODULE Spec2Model ----
(***************************************************************************)
(* State-machine model of SetFitTrainer (src/src/setfit/trainer.py).       *)
(*                                                                         *)
(* One trainer object, driven by a single thread of control.  The fields   *)
(* of the trainer are the model's variables; every public method is cut    *)
(* into the steps at which it can raise, so that "what has happened        *)
(* before the error" is a state of the model.                              *)
(*                                                                         *)
(* Conventions                                                             *)
(*   - Python None is the string "None" for object-valued fields and the   *)
(*     number None (-1) for numeric arguments.                             *)
(*   - learning rates are small naturals (units of the default rate); 0 is *)
(*     the float 0.0.                                                      *)
(*   - a dataset is one of a few named shapes; column_names(d) gives its   *)
(*     columns.                                                            *)
(***************************************************************************)
EXTENDS Integers, Sequences, FiniteSets, TLC

(***************************************************************************)
(* Bounds of the model.                                                    *)
(***************************************************************************)
\* largest configured num_iterations
MaxIter == 2
\* largest per-call override value / configured numeric value
MaxVal == 2
\* total number of log entries the fit loops emit over the trainer's life
MaxLog == 2
\* number of times model_init may produce a fresh model after construction
MaxGen == 1
\* largest number of examples carrying one label
MaxPerLabel == 3

\* numeric None
None == 0 - 1

(***************************************************************************)
(* Python helpers.                                                         *)
(***************************************************************************)
\* truth value of an optional number: None and 0 are falsy
Truthy(x) == x # None /\ x # 0
\* `a or b`
PyOr(a, b) == IF Truthy(a) THEN a ELSE b
Min(a, b) == IF a <= b THEN a ELSE b

RECURSIVE SumSeq(_)
SumSeq(s) == IF s = <<>> THEN 0 ELSE Head(s) + SumSeq(Tail(s))

IsPrefix(s, t) == Len(s) <= Len(t) /\ SubSeq(t, 1, Len(s)) = s

(***************************************************************************)
(* Datasets.                                                               *)
(***************************************************************************)
\* the shapes of dataset a caller may hand to the trainer
DatasetShapes == {"Std", "Raw", "Dict"}

column_names(d) ==
    CASE d = "Std"  -> {"text", "label"}
      [] d = "Raw"  -> {"sentence", "lbl"}
      [] d = "Dict" -> {"train"}

isDatasetDict(d) == d = "Dict"

required_columns == {"text", "label"}

\* column mappings a caller may configure ("None": no mapping), each a set of
\* <<dataset column, expected column>> pairs
ColumnMappings == {"None", "Good", "Partial"}
MappingPairs(m) ==
    CASE m = "Good"    -> {<<"sentence", "text">>, <<"lbl", "label">>}
      [] m = "Partial" -> {<<"sentence", "text">>}
      [] m = "None"    -> {}
MappingKeys(m) == {p[1] : p \in MappingPairs(m)}
MappingValues(m) == {p[2] : p \in MappingPairs(m)}

\* _validate_column_mapping: "ok", or the ValueError it raises
validate_column_mapping(mapping, d) ==
    IF mapping = "None" /\ ~(required_columns \subseteq column_names(d))
    THEN IF column_names(d) = {"train"} /\ isDatasetDict(d)
         THEN "ValueError_dict_train_split"
         ELSE IF isDatasetDict(d)
              THEN "ValueError_dict_splits"
              ELSE "ValueError_missing_columns"
    ELSE IF mapping # "None"
         THEN IF required_columns \ MappingValues(mapping) # {}
              THEN "ValueError_mapping_incomplete"
              ELSE IF ~(MappingKeys(mapping) \subseteq column_names(d))
                   THEN "ValueError_mapping_columns_absent"
                   ELSE "ok"
         ELSE "ok"

\* _apply_column_mapping: the columns of the renamed dataset
apply_column_mapping(d, mapping) ==
    {p[2] : p \in {q \in MappingPairs(mapping) : q[1] \in column_names(d)}}
    \cup {"feat_" \o c : c \in column_names(d) \ MappingKeys(mapping)}

\* dataset[col]: "ok", or the error of indexing
\*   None[col]              -> TypeError
\*   a dataset without col  -> KeyError
index_columns(d, cols) ==
    IF d = "None" THEN "TypeError_none_dataset"
    ELSE IF ~(required_columns \subseteq cols) THEN "KeyError_column"
    ELSE "ok"

(***************************************************************************)
(* Loss kinds (the classes the caller may pass as loss_class).             *)
(***************************************************************************)
\* the kinds train() sends down the label-grouped (sampler) path, lines 414-420
LabelGroupedLosses ==
    {"BatchAllTripletLoss", "BatchHardTripletLoss", "BatchSemiHardTripletLoss",
     "BatchHardSoftMarginTripletLoss", "SupConLoss"}
\* the kinds the specification calls supported
SupportedLosses == LabelGroupedLosses \cup {"CosineSimilarityLoss"}
\* every loss_class value of the model; "OtherLoss" is any class outside the
\* supported set, "None" is loss_class=None
LossKinds == SupportedLosses \cup {"OtherLoss", "None"}

\* constructor arguments bound per loss kind, lines 431-443 and 465
LossCtorArgs(kind) ==
    CASE kind = "BatchHardSoftMarginTripletLoss" -> {"model", "distance_metric"}
      [] kind = "SupConLoss" -> {"model"}
      [] kind \in LabelGroupedLosses \ {"BatchHardSoftMarginTripletLoss", "SupConLoss"}
            -> {"model", "distance_metric", "margin"}
      [] OTHER -> {"model"}

(***************************************************************************)
(* Constructor defaults kept by the model.                                 *)
(***************************************************************************)
DefaultNumEpochs == 1
DefaultBatchSize == 16
\* 2e-5, the unit of learning rates in the model
DefaultLearningRate == 1
DefaultSamplesPerLabel == 2

(***************************************************************************)
(* Hyperparameter mappings (the dict a trial resolves to).                 *)
(*   num   : the numeric trainer fields the mapping names (None: not named) *)
(*   hists : the history fields the mapping names; the value suggested for *)
(*           each is an empty history {"train": [], "test": []}            *)
(*   other : whether the mapping names a key that is no trainer field      *)
(***************************************************************************)
NumFields == {"num_epochs", "batch_size", "learning_rate", "num_iterations"}
HistFields == {"sentence_transformer_history", "classifier_history"}

NoNums == [f \in NumFields |-> None]
NoParams == [num |-> NoNums, hists |-> {}, other |-> FALSE]
ParamChoices ==
    { NoParams,
      [num |-> [NoNums EXCEPT !["num_epochs"] = 2, !["learning_rate"] = 2],
       hists |-> {}, other |-> TRUE],
      [num |-> NoNums, hists |-> {"classifier_history"}, other |-> FALSE],
      [num |-> NoNums, hists |-> {"sentence_transformer_history"}, other |-> FALSE] }

\* len(params): an empty dict is falsy
ParamsLen(p) ==
    Cardinality({f \in NumFields : p.num[f] # None}) + Cardinality(p.hists)
    + (IF p.other THEN 1 ELSE 0)

\* trial arguments of train(): None, a dict, or an optuna.Trial object
TrialChoices ==
    {[kind |-> "None", params |-> NoParams], [kind |-> "Trial", params |-> NoParams]}
    \cup {[kind |-> "Dict", params |-> p] : p \in ParamChoices}
\* `if trial:`
TrialTruthy(t) ==
    CASE t.kind = "None"  -> FALSE
      [] t.kind = "Trial" -> TRUE
      [] t.kind = "Dict"  -> ParamsLen(t.params) > 0

EmptyHistory == [train |-> <<>>, test |-> <<>>]

(***************************************************************************)
(* Training data: the number of examples carrying each label.              *)
(***************************************************************************)
LabelCountChoices ==
    {<<c1, c2>> : c1 \in 1..MaxPerLabel, c2 \in 1..MaxPerLabel} \ {<<1, 2>>, <<1, 3>>}

\* len(SentenceLabelDataset(examples, samples_per_label)): the examples whose
\* label has at least samples_per_label examples
SamplerLen(counts, spl) ==
    SumSeq([i \in 1..Len(counts) |-> IF counts[i] >= spl THEN counts[i] ELSE 0])

\* len(DataLoader(dataset of n items, batch_size=bs, drop_last=True))
LoaderLenDropLast(n, bs) == n \div bs

\* the pairs one pass of the pair generator adds for n texts: one positive and
\* one negative pair per text
PairsPerPass(n) == 2 * n

(***************************************************************************)
(* State.                                                                  *)
(***************************************************************************)
VARIABLES
    \* trainer fields set by __init__
    train_dataset, eval_dataset, column_mapping, loss_class, metric,
    cfg,                \* num_epochs, batch_size, learning_rate, num_iterations
    labels,             \* per-label example counts of train_dataset
    model_init,         \* "None", "arity0", "arity1"
    model,              \* the SetFitModel: capability flag, switches, identity
    hp_search_backend,  \* "None" or "optuna"
    _freeze,
    sentence_transformer_history, classifier_history,
    hp_space_set,       \* whether self.hp_space has been assigned (line 621)
    \* the call in progress
    pc,                 \* position of the thread of control
    call,               \* the method running, its arguments, and how far it got:
                        \*   progress "entry"      the call has begun
                        \*            "validated"  line 384 has returned
                        \*            "line405"    the body phase was decided on
                        \*            "line492"    the head phase was decided on
    eff,                \* train()'s locals num_epochs, batch_size, learning_rate
    build,              \* train()'s locals of the body phase (requested: the batch
                        \* size before line 424 caps it)
    outcome,            \* "running", "ok" or the exception raised
    search,             \* the hyperparameter search in progress, if any
    \* bookkeeping for the properties
    logged,             \* number of log entries emitted so far
    entry               \* trainer fields as they were when the call began

vars == <<train_dataset, eval_dataset, column_mapping, loss_class, metric, cfg,
          labels, model_init, model, hp_search_backend, _freeze,
          sentence_transformer_history, classifier_history, hp_space_set,
          pc, call, eff, build, outcome, search, logged, entry>>

fields == <<train_dataset, eval_dataset, column_mapping, loss_class, metric, cfg,
            labels, model_init, model, hp_search_backend, _freeze,
            sentence_transformer_history, classifier_history, hp_space_set>>

NoOverrides == [num_epochs |-> None, batch_size |-> None, learning_rate |-> None]
NoCall == [kind |-> "none", trial |-> [kind |-> "None", params |-> NoParams],
           ov |-> NoOverrides, hp_applied |-> FALSE, progress |-> "entry",
           body_ran |-> FALSE, head_ran |-> FALSE, dataset |-> "None",
           backend |-> "None"]
NoEff == [num_epochs |-> None, batch_size |-> None, learning_rate |-> None]
NoBuild == [passes |-> 0, train_examples |-> 0, sampler_len |-> None, requested |-> None,
            loaders |-> {}, num_batches |-> None, loss_built |-> FALSE,
            epoch |-> 0, steps |-> 0, consumed |-> 0]
NoSearch == [active |-> FALSE, trials_left |-> 0]

Snapshot == [cfg |-> cfg, model |-> model, loss_class |-> loss_class,
             st |-> sentence_transformer_history, cls |-> classifier_history]

\* a freshly instantiated model
NewModel(hdh, gen) ==
    [has_differentiable_head |-> hdh, gen |-> gen,
     head_frozen |-> FALSE, body_frozen |-> FALSE]

(***************************************************************************)
(* __init__, lines 104-148: the state after a successful construction.     *)
(***************************************************************************)
ModelInits == {"None", "arity0", "arity1"}
\* the metric argument: the name of a metric, a function, anything else
MetricKinds == {"str", "callable", "other"}
DefaultLabels == <<2, 2>>

\* the trainer constructed from arguments drawn from the given sets
Constructed(tds, eds, cms, lcs, its, lbls, mis, hdhs, ms) ==
    /\ train_dataset \in tds
    /\ eval_dataset \in eds
    /\ column_mapping \in cms
    /\ loss_class \in lcs
    /\ metric \in ms
    /\ cfg \in [num_epochs : {DefaultNumEpochs}, batch_size : {DefaultBatchSize},
                learning_rate : {DefaultLearningRate}, num_iterations : its]
    /\ labels \in lbls
    /\ model_init \in mis
    /\ model \in {NewModel(h, 0) : h \in hdhs}
    /\ hp_search_backend = "None"
    /\ _freeze = TRUE
    /\ sentence_transformer_history = EmptyHistory
    /\ classifier_history = EmptyHistory
    /\ hp_space_set = FALSE

NoCallInProgress ==
    /\ pc = "idle"
    /\ call = NoCall
    /\ eff = NoEff
    /\ build = NoBuild
    /\ outcome = "none"
    /\ search = NoSearch
    /\ logged = 0
    /\ entry = Snapshot

\* The life of a trainer: datasets and column mappings of every shape on a
\* trainer with a fixed model, models and model factories of every kind on a
\* trainer with well-formed datasets, loss kinds of every path, and metrics of
\* every kind.
Init ==
    /\ \/ Constructed(DatasetShapes \cup {"None"}, DatasetShapes \cup {"None"},
                      ColumnMappings, {"CosineSimilarityLoss"}, {1}, {DefaultLabels},
                      {"None"}, {FALSE}, {"str"})
       \/ Constructed({"Std", "None"}, {"Std"}, {"None"}, {"CosineSimilarityLoss"},
                      {1}, {DefaultLabels}, ModelInits, BOOLEAN, {"str"})
       \/ Constructed({"Std", "None"}, {"Std"}, {"None"},
                      {"BatchHardTripletLoss", "OtherLoss", "None"},
                      {1}, {DefaultLabels}, {"None"}, {FALSE}, {"str"})
       \/ Constructed({"Std"}, {"Std"}, {"None"}, {"CosineSimilarityLoss"},
                      {1}, {DefaultLabels}, {"None"}, {FALSE}, MetricKinds)
    /\ NoCallInProgress

\* One train() call in detail: every loss kind, number of iterations and
\* label distribution on a trainer with well-formed datasets and a fixed model.
InitBody ==
    /\ Constructed({"Std"}, {"Std"}, {"None"}, LossKinds, 0..MaxIter,
                   LabelCountChoices, {"None"}, BOOLEAN, {"str"})
    /\ NoCallInProgress

(***************************************************************************)
(* Helpers of the actions.                                                 *)
(***************************************************************************)
ColumnsOf(d) == IF d = "None" THEN {} ELSE column_names(d)

\* an exception leaves the method: the call ends with the exception as outcome
Raise(err) == pc' = "done" /\ outcome' = err

(***************************************************************************)
(* apply_hyperparameters, lines 206-228.                                   *)
(***************************************************************************)
\* lines 213-219: every named field is overwritten with the coerced value
\* (type(old)(value); the values of the model already have the field's type)
SetNumFields(c, p) ==
    [f \in NumFields |-> IF p.num[f] # None THEN p.num[f] ELSE c[f]]

\* lines 213-219 for a history field: setattr replaces the dict by dict(value)
SetHistField(h, name, p) == IF name \in p.hists THEN EmptyHistory ELSE h

\* lines 220-224: a key that is no field asks for number_of_arguments(model_init),
\* which raises TypeError when model_init is None
UnknownKeyRaises(p) == p.other /\ model_init = "None"

\* line 226, self.model_init(params): "ok" or the TypeError of the call
ModelInitWithParams ==
    CASE model_init = "None"   -> "TypeError_model_init_not_callable"
      [] model_init = "arity0" -> "TypeError_model_init_arguments"
      [] model_init = "arity1" -> "ok"

\* the whole of apply_hyperparameters(params, final_model=False) as a step of the
\* method `next`, which continues at pc `next` when it returns
apply_hyperparameters(p, next) ==
    IF UnknownKeyRaises(p)
    THEN \* the keys before the unknown one (dict order) have been set
         /\ \E before \in BOOLEAN :
              /\ cfg' = IF before THEN SetNumFields(cfg, p) ELSE cfg
              /\ sentence_transformer_history' =
                   IF before
                   THEN SetHistField(sentence_transformer_history,
                                     "sentence_transformer_history", p)
                   ELSE sentence_transformer_history
              /\ classifier_history' =
                   IF before
                   THEN SetHistField(classifier_history, "classifier_history", p)
                   ELSE classifier_history
         /\ Raise("TypeError_number_of_arguments")
         /\ UNCHANGED model
    ELSE /\ cfg' = SetNumFields(cfg, p)
         /\ sentence_transformer_history' =
              SetHistField(sentence_transformer_history, "sentence_transformer_history", p)
         /\ classifier_history' = SetHistField(classifier_history, "classifier_history", p)
         /\ IF ModelInitWithParams = "ok"
            THEN /\ model' = NewModel(model.has_differentiable_head, model.gen + 1)
                 /\ pc' = next
                 /\ UNCHANGED outcome
            ELSE /\ Raise(ModelInitWithParams)
                 /\ UNCHANGED model

(***************************************************************************)
(* train(), lines 335-515.                                                 *)
(***************************************************************************)
\* the per-call overrides a caller may pass
OverrideValues == {None} \cup 0..MaxVal
AllOverrides ==
    [num_epochs : OverrideValues, batch_size : OverrideValues,
     learning_rate : OverrideValues]

\* the caller invokes train(num_epochs, batch_size, learning_rate, trial=t);
\* line 376 set_seed
BeginTrain(t, ov) ==
    /\ call' = [NoCall EXCEPT !.kind = "train", !.trial = t, !.ov = ov]
    /\ outcome' = "running"
    /\ entry' = Snapshot
    /\ eff' = NoEff
    /\ build' = NoBuild
    /\ pc' = "t_hp"

TrainOf(trials, overrides) ==
    /\ pc = "idle"
    /\ \E t \in trials, ov \in overrides :
         /\ TrialTruthy(t) /\ hp_search_backend # "None" => model.gen < MaxGen
         /\ BeginTrain(t, ov)
    /\ UNCHANGED <<fields, search, logged>>

\* train(trial=...) without overrides
Train == TrainOf(TrialChoices, {NoOverrides})
\* train(num_epochs=..., batch_size=..., learning_rate=...) without a trial
TrainWithOverrides == TrainOf({[kind |-> "None", params |-> NoParams]}, AllOverrides)

NoTrial == [kind |-> "None", params |-> NoParams]

\* lines 378-379 with _hp_search_setup, lines 230-245; the trial is not read
\* again after them
TrainHpSetup ==
    /\ pc = "t_hp"
    /\ IF TrialTruthy(call.trial) /\ hp_search_backend # "None"
       THEN /\ call' = [call EXCEPT !.hp_applied = TRUE, !.trial = NoTrial]
            /\ IF call.trial.kind = "Dict"
               THEN apply_hyperparameters(call.trial.params, "t_check")
               ELSE \* hp_search_backend is OPTUNA: params = self.hp_space(trial)
                    IF hp_space_set
                    THEN \E p \in ParamChoices : apply_hyperparameters(p, "t_check")
                    ELSE /\ Raise("AttributeError_hp_space")
                         /\ UNCHANGED <<cfg, model, sentence_transformer_history,
                                        classifier_history>>
       ELSE /\ pc' = "t_check"
            /\ call' = [call EXCEPT !.trial = NoTrial]
            /\ UNCHANGED <<outcome, cfg, model, sentence_transformer_history,
                           classifier_history>>
    /\ UNCHANGED <<train_dataset, eval_dataset, column_mapping, loss_class, metric,
                   labels, model_init, hp_search_backend, _freeze, hp_space_set,
                   eff, build, search, logged, entry>>

\* lines 381-382
TrainCheckDataset ==
    /\ pc = "t_check"
    /\ IF train_dataset = "None"
       THEN Raise("ValueError_no_train_dataset")
       ELSE pc' = "t_validate" /\ UNCHANGED outcome
    /\ UNCHANGED <<fields, call, eff, build, search, logged, entry>>

\* lines 384-392 with a failed validation reported and passed over
TrainValidateLenient ==
    /\ pc = "t_validate"
    /\ LET cols == IF column_mapping # "None"
                   THEN apply_column_mapping(train_dataset, column_mapping)
                   ELSE column_names(train_dataset)
       IN  /\ call' = [call EXCEPT !.progress = "validated"]
           /\ IF index_columns(train_dataset, cols) # "ok"
              THEN pc' = "t_resolve" /\ UNCHANGED outcome
              ELSE pc' = "t_eval_cols" /\ UNCHANGED outcome
    /\ UNCHANGED <<fields, eff, build, search, logged, entry>>

\* lines 384-392: validate the training dataset, rename its columns, read them
TrainValidate ==
    /\ pc = "t_validate"
    /\ LET v == validate_column_mapping(column_mapping, train_dataset)
           cols == IF column_mapping # "None"
                   THEN apply_column_mapping(train_dataset, column_mapping)
                   ELSE column_names(train_dataset)
       IN  IF v # "ok" THEN Raise(v) /\ UNCHANGED call
           ELSE /\ call' = [call EXCEPT !.progress = "validated"]
                /\ IF index_columns(train_dataset, cols) # "ok"
                   THEN Raise(index_columns(train_dataset, cols))
                   ELSE pc' = "t_eval_cols" /\ UNCHANGED outcome
    /\ UNCHANGED <<fields, eff, build, search, logged, entry>>

\* lines 386, 394-395: the evaluation dataset is read as it is
TrainReadEval ==
    /\ pc = "t_eval_cols"
    /\ LET r == index_columns(eval_dataset, ColumnsOf(eval_dataset))
       IN  IF r # "ok" THEN Raise(r)
           ELSE pc' = "t_resolve" /\ UNCHANGED outcome
    /\ UNCHANGED <<fields, call, eff, build, search, logged, entry>>

\* lines 401-403
ResolveOverride(override, configured) == PyOr(override, configured)

\* lines 397-403 with the resolved values written back to the trainer
TrainResolvePersist ==
    /\ pc = "t_resolve"
    /\ loss_class' = IF loss_class = "None" THEN "CosineSimilarityLoss" ELSE loss_class
    /\ eff' = [num_epochs |-> ResolveOverride(call.ov.num_epochs, cfg.num_epochs),
               batch_size |-> ResolveOverride(call.ov.batch_size, cfg.batch_size),
               learning_rate |-> ResolveOverride(call.ov.learning_rate,
                                                 cfg.learning_rate)]
    /\ cfg' = [cfg EXCEPT !.num_epochs = eff'.num_epochs,
                          !.batch_size = eff'.batch_size,
                          !.learning_rate = eff'.learning_rate]
    /\ pc' = "t_body_if"
    /\ UNCHANGED <<train_dataset, eval_dataset, column_mapping, metric, labels,
                   model_init, model, hp_search_backend, _freeze,
                   sentence_transformer_history, classifier_history, hp_space_set,
                   call, build, outcome, search, logged, entry>>

\* lines 397-403
TrainResolve ==
    /\ pc = "t_resolve"
    /\ loss_class' = IF loss_class = "None" THEN "CosineSimilarityLoss" ELSE loss_class
    /\ eff' = [num_epochs |-> ResolveOverride(call.ov.num_epochs, cfg.num_epochs),
               batch_size |-> ResolveOverride(call.ov.batch_size, cfg.batch_size),
               learning_rate |-> ResolveOverride(call.ov.learning_rate,
                                                 cfg.learning_rate)]
    /\ pc' = "t_body_if"
    /\ UNCHANGED <<train_dataset, eval_dataset, column_mapping, metric, cfg, labels,
                   model_init, model, hp_search_backend, _freeze,
                   sentence_transformer_history, classifier_history, hp_space_set,
                   call, build, outcome, search, logged, entry>>

\* line 405
BodyCondition == ~model.has_differentiable_head \/ _freeze
\* line 492 written as the negation of line 405: a head phase only when no body
\* phase ran
HeadConditionFreezeOnly == ~_freeze
\* line 492
HeadCondition == ~model.has_differentiable_head \/ ~_freeze

\* line 405 preceded by a check that refuses a loss class outside the supported
\* set before anything is built
TrainBodyIfRejectUnsupported ==
    /\ pc = "t_body_if"
    /\ IF BodyCondition
       THEN /\ call' = [call EXCEPT !.body_ran = TRUE, !.ov = NoOverrides,
                                    !.progress = "line405"]
            /\ IF loss_class \notin SupportedLosses
               THEN Raise("ValueError_unsupported_loss")
               ELSE /\ pc' = IF loss_class \in LabelGroupedLosses
                             THEN "b_sampler" ELSE "b_pairs"
                    /\ UNCHANGED outcome
       ELSE /\ pc' = "t_head_if"
            /\ call' = [call EXCEPT !.ov = NoOverrides, !.progress = "line405"]
            /\ UNCHANGED outcome
    /\ UNCHANGED <<fields, eff, build, search, logged, entry>>

\* line 405; the overrides were rebound to the resolved values at lines 401-403
TrainBodyIf ==
    /\ pc = "t_body_if"
    /\ IF BodyCondition
       THEN /\ call' = [call EXCEPT !.body_ran = TRUE, !.ov = NoOverrides,
                                    !.progress = "line405"]
            /\ pc' = IF loss_class \in LabelGroupedLosses THEN "b_sampler" ELSE "b_pairs"
       ELSE /\ pc' = "t_head_if"
            /\ call' = [call EXCEPT !.ov = NoOverrides, !.progress = "line405"]
    /\ UNCHANGED <<fields, eff, build, outcome, search, logged, entry>>

\* line 424 without the cap
EffectiveBatchSizeUncapped(requested, available) == requested

\* line 424
EffectiveBatchSize(requested, available) == Min(requested, available)

\* lines 421-429: the label-grouped path; DataLoader refuses a batch size of 0
BodySampler ==
    /\ pc = "b_sampler"
    /\ LET n  == SamplerLen(labels, DefaultSamplesPerLabel)
           bs == EffectiveBatchSize(eff.batch_size, n)
       IN  /\ eff' = [eff EXCEPT !.batch_size = bs]
           /\ IF bs <= 0
              THEN /\ Raise("ValueError_batch_size")
                   /\ build' = [build EXCEPT !.train_examples = SumSeq(labels),
                                             !.sampler_len = n,
                                             !.requested = eff.batch_size]
              ELSE /\ build' = [build EXCEPT !.train_examples = SumSeq(labels),
                                             !.sampler_len = n,
                                             !.requested = eff.batch_size,
                                             !.loaders = {"train", "test"},
                                             !.num_batches = LoaderLenDropLast(n, bs)]
                   /\ pc' = "b_loss"
                   /\ UNCHANGED outcome
    /\ UNCHANGED <<fields, call, search, logged, entry>>

\* lines 448-462 with every pass starting from an empty list of pairs
BodyPairPassReplace ==
    /\ pc = "b_pairs"
    /\ build.passes < cfg.num_iterations
    /\ build' = [build EXCEPT !.passes = @ + 1,
                              !.train_examples = PairsPerPass(SumSeq(labels))]
    /\ UNCHANGED <<fields, pc, call, eff, outcome, search, logged, entry>>

\* lines 448-462: one pass of the pair generator over the training data (and
\* one over the evaluation data), appended to the pairs of the earlier passes
BodyPairPass ==
    /\ pc = "b_pairs"
    /\ build.passes < cfg.num_iterations
    /\ build' = [build EXCEPT !.passes = @ + 1,
                              !.train_examples = @ + PairsPerPass(SumSeq(labels))]
    /\ UNCHANGED <<fields, pc, call, eff, outcome, search, logged, entry>>

\* line 464: DataLoader(train_examples, shuffle=True, batch_size=batch_size)
BodyPairLoader ==
    /\ pc = "b_pairs"
    /\ build.passes >= cfg.num_iterations
    /\ build' = [build EXCEPT
                   !.loaders = {"train"},
                   !.num_batches = (build.train_examples + eff.batch_size - 1)
                                   \div eff.batch_size]
    /\ pc' = "b_loss"
    /\ UNCHANGED <<fields, call, eff, outcome, search, logged, entry>>

\* lines 431-443 and 465-469: the loss is constructed on the model body, the
\* pairwise path then builds the test loader
BodyLossCtor ==
    /\ pc = "b_loss"
    /\ build' = [build EXCEPT !.loss_built = TRUE, !.loaders = @ \cup {"test"}]
    /\ pc' = "b_fit"
    /\ UNCHANGED <<fields, call, eff, outcome, search, logged, entry>>

\* line 465 for a class outside the supported set: its constructor may refuse
\* the single argument it is given
BodyLossCtorRaise ==
    /\ pc = "b_loss"
    /\ loss_class \notin SupportedLosses
    /\ Raise("TypeError_loss_constructor")
    /\ UNCHANGED <<fields, call, eff, build, search, logged, entry>>

\* _log_training_progress, lines 291-314
log_training_progress(history, training_idx, epoch, steps, current_lr, loss_value) ==
    [history EXCEPT !.train = Append(@, [training_idx |-> training_idx, epoch |-> epoch,
                                         steps |-> steps, current_lr |-> current_lr,
                                         loss_value |-> loss_value])]

\* _log_test_progress, lines 316-333
log_test_progress(history, score, epoch) ==
    [history EXCEPT !.test = Append(@, [epoch |-> epoch, loss_value |-> score])]

\* The values the fit loops hand to the callbacks: the epoch and the step are
\* the loop's counters; learning rate and loss are floats the optimiser
\* computes, one value in the model.
AnyFloat == 0

\* lines 407-409: the body fit loop calls log_callback
BodyLogTrain ==
    /\ pc = "b_fit"
    /\ logged < MaxLog
    /\ sentence_transformer_history' =
         log_training_progress(sentence_transformer_history, 0, build.epoch,
                               build.steps, AnyFloat, AnyFloat)
    /\ build' = [build EXCEPT !.steps = @ + 1]
    /\ logged' = logged + 1
    /\ UNCHANGED <<train_dataset, eval_dataset, column_mapping, loss_class, metric, cfg,
                   labels, model_init, model, hp_search_backend, _freeze,
                   classifier_history, hp_space_set,
                   pc, call, eff, outcome, search, entry>>

\* lines 411-412: the evaluator reports a score
BodyLogTest ==
    /\ pc = "b_fit"
    /\ logged < MaxLog
    /\ sentence_transformer_history' =
         log_test_progress(sentence_transformer_history, AnyFloat, build.epoch)
    /\ logged' = logged + 1
    /\ UNCHANGED <<train_dataset, eval_dataset, column_mapping, loss_class, metric, cfg,
                   labels, model_init, model, hp_search_backend, _freeze,
                   classifier_history, hp_space_set,
                   pc, call, eff, build, outcome, search, entry>>

\* lines 471-490: one epoch of model_body.fit consumes len(train_dataloader) batches
BodyFitEpoch ==
    /\ pc = "b_fit"
    /\ build.epoch < eff.num_epochs
    /\ build' = [build EXCEPT !.epoch = @ + 1,
                              !.consumed = @ + build.num_batches * eff.batch_size]
    /\ UNCHANGED <<fields, pc, call, eff, outcome, search, logged, entry>>

BodyFitDone ==
    /\ pc = "b_fit"
    /\ build.epoch >= eff.num_epochs
    /\ pc' = "t_head_if"
    /\ UNCHANGED <<fields, call, eff, build, outcome, search, logged, entry>>

\* model_body.fit raises (the optimisation engine is an external collaborator)
BodyFitRaise ==
    /\ pc = "b_fit"
    /\ Raise("Error_body_fit")
    /\ UNCHANGED <<fields, call, eff, build, search, logged, entry>>

\* line 492; the head fit loop starts its own count of epochs
TrainHeadIf ==
    /\ pc = "t_head_if"
    /\ IF HeadCondition
       THEN /\ call' = [call EXCEPT !.head_ran = TRUE, !.progress = "line492"]
            /\ pc' = "h_fit"
            /\ build' = [build EXCEPT !.steps = 0]
            /\ UNCHANGED outcome
       ELSE /\ pc' = "done"
            /\ outcome' = "ok"
            /\ call' = [call EXCEPT !.progress = "line492"]
            /\ UNCHANGED build
    /\ UNCHANGED <<fields, eff, search, logged, entry>>

\* lines 494-496 handing the body's history to _log_training_progress
HeadLogTrainBodyHistory ==
    /\ pc = "h_fit"
    /\ logged < MaxLog
    /\ sentence_transformer_history' =
         log_training_progress(sentence_transformer_history, 0 - 1, build.steps, 0 - 1,
                               0 - 1, AnyFloat)
    /\ build' = [build EXCEPT !.steps = @ + 1]
    /\ logged' = logged + 1
    /\ UNCHANGED <<train_dataset, eval_dataset, column_mapping, loss_class, metric, cfg,
                   labels, model_init, model, hp_search_backend, _freeze,
                   classifier_history, hp_space_set,
                   pc, call, eff, outcome, search, entry>>

\* lines 494-496: model.fit calls train_callback once an epoch
HeadLogTrain ==
    /\ pc = "h_fit"
    /\ logged < MaxLog
    /\ classifier_history' =
         log_training_progress(classifier_history, 0 - 1, build.steps, 0 - 1, 0 - 1,
                               AnyFloat)
    /\ build' = [build EXCEPT !.steps = @ + 1]
    /\ logged' = logged + 1
    /\ UNCHANGED <<train_dataset, eval_dataset, column_mapping, loss_class, metric, cfg,
                   labels, model_init, model, hp_search_backend, _freeze,
                   sentence_transformer_history, hp_space_set,
                   pc, call, eff, outcome, search, entry>>

\* lines 498-499: model.fit calls eval_callback
HeadLogTest ==
    /\ pc = "h_fit"
    /\ logged < MaxLog
    /\ classifier_history' = log_test_progress(classifier_history, AnyFloat, build.steps)
    /\ logged' = logged + 1
    /\ UNCHANGED <<train_dataset, eval_dataset, column_mapping, loss_class, metric, cfg,
                   labels, model_init, model, hp_search_backend, _freeze,
                   sentence_transformer_history, hp_space_set,
                   pc, call, eff, build, outcome, search, entry>>

\* lines 501-515: model.fit returns and train() with it
HeadFitDone ==
    /\ pc = "h_fit"
    /\ pc' = "done"
    /\ outcome' = "ok"
    /\ UNCHANGED <<fields, call, eff, build, search, logged, entry>>

HeadFitRaise ==
    /\ pc = "h_fit"
    /\ Raise("Error_head_fit")
    /\ UNCHANGED <<fields, call, eff, build, search, logged, entry>>

(***************************************************************************)
(* evaluate(), lines 517-555.                                              *)
(***************************************************************************)
BeginEvaluate(d) ==
    /\ call' = [NoCall EXCEPT !.kind = "evaluate", !.dataset = d]
    /\ outcome' = "running"
    /\ entry' = Snapshot
    /\ eff' = NoEff
    /\ build' = NoBuild
    /\ pc' = "e_validate"

Evaluate ==
    /\ pc = "idle"
    /\ \E d \in DatasetShapes \cup {"None"} : BeginEvaluate(d)
    /\ UNCHANGED <<fields, search, logged>>

\* lines 529-537; the dataset argument is not read again after line 529
EvaluateValidate ==
    /\ pc = "e_validate"
    /\ LET d == IF call.dataset # "None" THEN call.dataset ELSE eval_dataset
       IN  IF d = "None"
           THEN Raise("AttributeError_none_dataset")
           ELSE LET v == validate_column_mapping(column_mapping, d)
                    cols == IF column_mapping # "None"
                            THEN apply_column_mapping(d, column_mapping)
                            ELSE column_names(d)
                IN  IF v # "ok" THEN Raise(v)
                    ELSE IF index_columns(d, cols) # "ok"
                         THEN Raise(index_columns(d, cols))
                         ELSE pc' = "e_predict" /\ UNCHANGED outcome
    /\ call' = [call EXCEPT !.dataset = "None"]
    /\ UNCHANGED <<fields, eff, build, search, logged, entry>>

\* lines 539-542: the model's predict contract
EvaluatePredict ==
    /\ pc = "e_predict"
    /\ pc' = "e_metric"
    /\ UNCHANGED <<fields, call, eff, build, outcome, search, logged, entry>>

\* lines 544-555
EvaluateMetric ==
    /\ pc = "e_metric"
    /\ pc' = "done"
    /\ outcome' = IF metric \in {"str", "callable"} THEN "ok" ELSE "ValueError_metric"
    /\ UNCHANGED <<fields, call, eff, build, search, logged, entry>>

(***************************************************************************)
(* freeze() and unfreeze(), lines 261-289.                                 *)
(***************************************************************************)
Freeze ==
    /\ pc = "idle"
    /\ call' = [NoCall EXCEPT !.kind = "freeze"]
    /\ entry' = Snapshot
    /\ pc' = "done"
    /\ IF ~model.has_differentiable_head
       THEN /\ outcome' = "ValueError_no_differentiable_head"
            /\ UNCHANGED <<_freeze, model>>
       ELSE /\ outcome' = "ok"
            /\ _freeze' = TRUE
            /\ model' = [model EXCEPT !.head_frozen = TRUE]
    /\ UNCHANGED <<train_dataset, eval_dataset, column_mapping, loss_class, metric, cfg,
                   labels, model_init, hp_search_backend,
                   sentence_transformer_history, classifier_history, hp_space_set,
                   eff, build, search, logged>>

\* unfreeze() with line 284 ahead of the capability test of lines 281-282
UnfreezeSwitchFirst ==
    /\ pc = "idle"
    /\ call' = [NoCall EXCEPT !.kind = "unfreeze"]
    /\ entry' = Snapshot
    /\ pc' = "done"
    /\ _freeze' = FALSE
    /\ IF ~model.has_differentiable_head
       THEN /\ outcome' = "ValueError_no_differentiable_head"
            /\ UNCHANGED model
       ELSE /\ outcome' = "ok"
            /\ \E keep_body_frozen \in BOOLEAN :
                 model' = [model EXCEPT !.head_frozen = FALSE,
                                        !.body_frozen = keep_body_frozen]
    /\ UNCHANGED <<train_dataset, eval_dataset, column_mapping, loss_class, metric, cfg,
                   labels, model_init, hp_search_backend,
                   sentence_transformer_history, classifier_history, hp_space_set,
                   eff, build, search, logged>>

Unfreeze ==
    /\ pc = "idle"
    /\ call' = [NoCall EXCEPT !.kind = "unfreeze"]
    /\ entry' = Snapshot
    /\ pc' = "done"
    /\ IF ~model.has_differentiable_head
       THEN /\ outcome' = "ValueError_no_differentiable_head"
            /\ UNCHANGED <<_freeze, model>>
       ELSE /\ outcome' = "ok"
            /\ _freeze' = FALSE
            /\ \E keep_body_frozen \in BOOLEAN :
                 model' = [model EXCEPT !.head_frozen = FALSE,
                                        !.body_frozen = keep_body_frozen]
    /\ UNCHANGED <<train_dataset, eval_dataset, column_mapping, loss_class, metric, cfg,
                   labels, model_init, hp_search_backend,
                   sentence_transformer_history, classifier_history, hp_space_set,
                   eff, build, search, logged>>

(***************************************************************************)
(* hyperparameter_search(), lines 557-631.                                 *)
(***************************************************************************)
\* the values a caller may pass as backend
BackendChoices == {"None", "optuna", "ray", "no_such_backend"}
\* the members of transformers' HPSearchBackend
HPSearchBackendMembers == {"optuna", "ray", "sigopt", "wandb"}
\* integrations.is_optuna_available()
is_optuna_available == TRUE
\* integrations.default_hp_search_backend()
default_hp_search_backend == IF is_optuna_available THEN "optuna" ELSE "None"

\* lines 606-614 alone: the backend checks without the model_init check
SearchPrecheckBackendOnly(backend) ==
    LET b == IF backend = "None" THEN default_hp_search_backend ELSE backend
    IN  IF b = "None" THEN "RuntimeError_optuna_not_installed"
        ELSE IF b \notin HPSearchBackendMembers THEN "ValueError_not_a_backend"
        ELSE IF b = "optuna" /\ ~is_optuna_available
             THEN "RuntimeError_optuna_not_installed"
        ELSE IF b # "optuna" THEN "RuntimeError_only_optuna"
        ELSE "ok"

\* lines 606-619: "ok" or the exception raised before the trials start
SearchPrecheck(backend) ==
    LET b == IF backend = "None" THEN default_hp_search_backend ELSE backend
    IN  IF b = "None" THEN "RuntimeError_optuna_not_installed"
        ELSE IF b \notin HPSearchBackendMembers THEN "ValueError_not_a_backend"
        ELSE IF b = "optuna" /\ ~is_optuna_available
             THEN "RuntimeError_optuna_not_installed"
        ELSE IF b # "optuna" THEN "RuntimeError_only_optuna"
        ELSE IF model_init = "None" THEN "RuntimeError_no_model_init"
        ELSE "ok"

\* line 615 is reached: every check before the model_init check has passed
BackendAssigned(backend) ==
    SearchPrecheck(backend) \in {"ok", "RuntimeError_no_model_init"}

HyperparameterSearch ==
    /\ pc = "idle"
    /\ \E backend \in BackendChoices, n_trials \in 1..(MaxGen - model.gen) :
         /\ call' = [NoCall EXCEPT !.kind = "search", !.backend = backend]
         /\ hp_search_backend' =
              IF BackendAssigned(backend) THEN "optuna" ELSE hp_search_backend
         /\ IF SearchPrecheck(backend) = "ok"
            THEN /\ hp_space_set' = TRUE
                 /\ search' = [active |-> TRUE, trials_left |-> n_trials]
                 /\ pc' = "s_loop"
                 /\ outcome' = "running"
            ELSE /\ Raise(SearchPrecheck(backend))
                 /\ UNCHANGED <<hp_space_set, search>>
    /\ entry' = Snapshot
    /\ UNCHANGED <<train_dataset, eval_dataset, column_mapping, loss_class, metric, cfg,
                   labels, model_init, model, _freeze,
                   sentence_transformer_history, classifier_history,
                   eff, build, logged>>

\* run_hp_search_optuna: the objective of one trial starts with train(trial=trial)
SearchTrialTrain ==
    /\ pc = "s_loop"
    /\ search.trials_left > 0
    /\ BeginTrain([kind |-> "Trial", params |-> NoParams], NoOverrides)
    /\ UNCHANGED <<fields, search, logged>>

\* run_hp_search_optuna: the objective goes on with evaluate()
SearchTrialEvaluate ==
    /\ pc = "s_eval"
    /\ BeginEvaluate("None")
    /\ UNCHANGED <<fields, search, logged>>

\* lines 628-631: the study is over, the best run is returned
SearchFinish ==
    /\ pc = "s_loop"
    /\ search.trials_left = 0
    /\ hp_search_backend' = "None"
    /\ search' = NoSearch
    /\ call' = [NoCall EXCEPT !.kind = "search"]
    /\ pc' = "done"
    /\ outcome' = "ok"
    /\ UNCHANGED <<train_dataset, eval_dataset, column_mapping, loss_class, metric, cfg,
                   labels, model_init, model, _freeze,
                   sentence_transformer_history, classifier_history, hp_space_set,
                   eff, build, logged, entry>>

(***************************************************************************)
(* The end of a call: control goes back to the caller.                     *)
(***************************************************************************)
\* a call made by the user returns (or raises) to the user
ReturnToCaller ==
    /\ pc = "done"
    /\ ~search.active
    /\ pc' = "idle"
    /\ call' = NoCall
    /\ eff' = NoEff
    /\ build' = NoBuild
    /\ outcome' = "none"
    /\ entry' = Snapshot
    /\ UNCHANGED <<fields, search, logged>>

\* a train() or evaluate() made by a trial returns to the objective
ReturnToSearch ==
    /\ pc = "done"
    /\ search.active
    /\ outcome = "ok"
    /\ IF call.kind = "train"
       THEN pc' = "s_eval" /\ UNCHANGED search
       ELSE pc' = "s_loop" /\ search' = [search EXCEPT !.trials_left = @ - 1]
    /\ call' = [NoCall EXCEPT !.kind = "search"]
    /\ eff' = NoEff
    /\ build' = NoBuild
    /\ outcome' = "running"
    /\ UNCHANGED <<fields, logged, entry>>

\* an exception of a trial's train() or evaluate() leaves the study and
\* hyperparameter_search with it: line 630 is not reached
RaiseThroughSearch ==
    /\ pc = "done"
    /\ search.active
    /\ outcome # "ok"
    /\ search' = NoSearch
    /\ call' = [NoCall EXCEPT !.kind = "search"]
    /\ eff' = NoEff
    /\ build' = NoBuild
    /\ UNCHANGED <<fields, pc, outcome, logged, entry>>

Next ==
    \/ Train \/ TrainHpSetup \/ TrainCheckDataset \/ TrainValidate \/ TrainReadEval
    \/ TrainResolve \/ TrainBodyIf
    \/ BodySampler \/ BodyPairPass \/ BodyPairLoader \/ BodyLossCtor \/ BodyLossCtorRaise
    \/ BodyLogTrain \/ BodyLogTest \/ BodyFitEpoch \/ BodyFitDone \/ BodyFitRaise
    \/ TrainHeadIf \/ HeadLogTrain \/ HeadLogTest \/ HeadFitDone \/ HeadFitRaise
    \/ Evaluate \/ EvaluateValidate \/ EvaluatePredict \/ EvaluateMetric
    \/ Freeze \/ Unfreeze
    \/ HyperparameterSearch \/ SearchTrialTrain \/ SearchTrialEvaluate \/ SearchFinish
    \/ ReturnToCaller \/ ReturnToSearch \/ RaiseThroughSearch

Spec == Init /\ [][Next]_vars

\* One train() call at a time, with per-call overrides and without trials; the
\* progress callbacks of the fit loops, which touch none of train()'s locals,
\* are left out.
NextBody ==
    \/ TrainWithOverrides \/ TrainHpSetup \/ TrainCheckDataset \/ TrainValidate
    \/ TrainReadEval \/ TrainResolve \/ TrainBodyIf
    \/ BodySampler \/ BodyPairPass \/ BodyPairLoader \/ BodyLossCtor \/ BodyLossCtorRaise
    \/ BodyFitEpoch \/ BodyFitDone \/ BodyFitRaise
    \/ TrainHeadIf \/ HeadFitDone \/ HeadFitRaise
    \/ Freeze \/ Unfreeze
    \/ ReturnToCaller

SpecBody == InitBody /\ [][NextBody]_vars

(***************************************************************************)
(* apply_hyperparameters() called by the user, lines 206-228, with the     *)
(* types of the values: a value is its Python type, the kind of literal a  *)
(* string holds, and twice its numeric value (so that 2.5 is the integer   *)
(* 5).                                                                     *)
(***************************************************************************)
\* largest number of keys in a params mapping
MaxKeys == 2

IntValue(n) == [type |-> "int", lit |-> "int", twice |-> 2 * n]
FloatValue(t) == [type |-> "float", lit |-> "float", twice |-> t]
StrValue(lit, t) == [type |-> "str", lit |-> lit, twice |-> t]
NoneValue == [type |-> "NoneType", lit |-> "none", twice |-> 0]
RaisedValue(err) == [type |-> "error", lit |-> err, twice |-> 0]

\* the values a params mapping may suggest: 2, 2.0, 2.5, "2", "2.5", "abc"
SuggestedValues ==
    {IntValue(2), FloatValue(4), FloatValue(5),
     StrValue("int", 4), StrValue("float", 5), StrValue("word", 0)}

\* line 217, type(old_attr)(value):
\*   int(x)    truncates a float, parses an integer literal, refuses any other string
\*   float(x)  converts a number, parses a numeric literal, refuses any other string
\*   str(x)    always succeeds
Coerce(old_attr, value) ==
    CASE old_attr.type = "int" ->
           IF value.type = "str"
           THEN IF value.lit = "int" THEN [type |-> "int", lit |-> "int", twice |-> value.twice]
                ELSE RaisedValue("ValueError_coercion")
           ELSE [type |-> "int", lit |-> "int", twice |-> 2 * (value.twice \div 2)]
      [] old_attr.type = "float" ->
           IF value.type = "str" /\ value.lit = "word"
           THEN RaisedValue("ValueError_coercion")
           ELSE [type |-> "float", lit |-> "float", twice |-> value.twice]
      [] old_attr.type = "str" ->
           [type |-> "str", lit |-> value.lit, twice |-> value.twice]

\* the trainer attributes of the typed model, and a key that names none
TypedFields == {"num_epochs", "learning_rate", "metric_kwargs"}
ParamKeys == TypedFields \cup {"not_a_field"}
TypedDefaults ==
    [num_epochs |-> IntValue(DefaultNumEpochs),
     learning_rate |-> FloatValue(2 * DefaultLearningRate),
     metric_kwargs |-> NoneValue]

\* params: a dict, in insertion order, of at most MaxKeys distinct keys
ParamSeqs ==
    {p \in UNION {[1..n -> ParamKeys \X SuggestedValues] : n \in 0..MaxKeys} :
        \A i, j \in DOMAIN p : i # j => p[i][1] # p[j][1]}

\* setattr(self, key, value)
SetAttr(c, key, value) ==
    [k \in DOMAIN c \cup {key} |-> IF k = key THEN value ELSE c[k]]

\* lines 213-224, the loop over params.items(): the fields after it, the
\* exception that ended it if one did, and whether the warning was logged
RECURSIVE ApplyKeys(_, _, _)
ApplyKeys(c, params, warned) ==
    IF params = <<>> THEN [cfg |-> c, err |-> "ok", warned |-> warned]
    ELSE LET key   == Head(params)[1]
             value == Head(params)[2]
         IN  IF key \in DOMAIN c
             THEN LET old_attr == c[key]
                      v == IF old_attr.type # "NoneType"
                           THEN Coerce(old_attr, value) ELSE value
                  IN  IF v.type = "error"
                      THEN [cfg |-> c, err |-> v.lit, warned |-> warned]
                      ELSE ApplyKeys(SetAttr(c, key, v), Tail(params), warned)
             ELSE IF model_init = "None"
                  THEN [cfg |-> c, err |-> "TypeError_number_of_arguments",
                        warned |-> warned]
                  ELSE ApplyKeys(c, Tail(params), warned \/ model_init = "arity0")

\* trainer.apply_hyperparameters(params, final_model)
ApplyHyperparameters ==
    /\ pc = "idle"
    /\ model_init = "arity1" => model.gen < MaxGen
    /\ \E params \in ParamSeqs, final_model \in BOOLEAN :
         LET r == ApplyKeys(cfg, params, FALSE)
         IN  /\ call' = [kind |-> "apply_hyperparameters", params |-> params,
                         final_model |-> final_model, warned |-> r.warned]
             /\ cfg' = r.cfg
             /\ IF r.err # "ok"
                THEN Raise(r.err) /\ UNCHANGED <<model, model_init>>
                ELSE IF ModelInitWithParams # "ok"
                     THEN Raise(ModelInitWithParams) /\ UNCHANGED <<model, model_init>>
                     ELSE /\ model' = NewModel(model.has_differentiable_head,
                                               model.gen + 1)
                          /\ model_init' = IF final_model THEN "None" ELSE model_init
                          /\ pc' = "done"
                          /\ outcome' = "ok"
    /\ entry' = Snapshot
    /\ UNCHANGED <<train_dataset, eval_dataset, column_mapping, loss_class, metric,
                   labels, hp_search_backend, _freeze, sentence_transformer_history,
                   classifier_history, hp_space_set, eff, build, search, logged>>

\* a trainer with a model_init of any kind whose fields hold their defaults
InitApply ==
    /\ train_dataset = "Std" /\ eval_dataset = "Std" /\ column_mapping = "None"
    /\ loss_class = "CosineSimilarityLoss" /\ metric = "str"
    /\ cfg = TypedDefaults
    /\ labels = DefaultLabels
    /\ model_init \in ModelInits
    /\ model = NewModel(FALSE, 0)
    /\ hp_search_backend = "None" /\ _freeze = TRUE
    /\ sentence_transformer_history = EmptyHistory
    /\ classifier_history = EmptyHistory
    /\ hp_space_set = FALSE
    /\ NoCallInProgress

NextApply == ApplyHyperparameters \/ ReturnToCaller

SpecApply == InitApply /\ [][NextApply]_vars

(***************************************************************************)
(* __init__ as an operation, lines 83-148, and the life of the trainers it *)
(* returns as far as model_init is concerned.                              *)
(***************************************************************************)
\* a float: not-a-number, or a number of tenths
Tenths(n) == [nan |-> FALSE, tenths |-> n]
NaN == [nan |-> TRUE, tenths |-> 0]
\* a < b on floats: every comparison with not-a-number is false
FloatLess(a, b) == ~a.nan /\ ~b.nan /\ a.tenths < b.tenths

\* the warmup_proportion arguments of the model: -0.1, 0.0, 0.1, 1.0, 1.1, nan
WarmupChoices == {Tenths(0 - 1), Tenths(0), Tenths(1), Tenths(10), Tenths(11), NaN}

\* the model_init arguments of the model: none, a factory of 0, 1 or 2
\* parameters returning a model, and a factory of 0 or 1 parameters returning
\* None
ModelInitArgs ==
    ModelInits \cup {"arity2", "arity0_returns_none", "arity1_returns_none"}
\* transformers.trainer_utils.number_of_arguments(model_init)
number_of_arguments(mi) ==
    CASE mi \in {"arity0", "arity0_returns_none"} -> 0
      [] mi \in {"arity1", "arity1_returns_none"} -> 1
      [] mi = "arity2" -> 2
ReturnsNone(mi) == mi \in {"arity0_returns_none", "arity1_returns_none"}

\* call_model_init, lines 247-259: "ok" or the RuntimeError it raises
call_model_init(mi) ==
    IF number_of_arguments(mi) \notin {0, 1} THEN "RuntimeError_model_init_arguments"
    ELSE IF ReturnsNone(mi) THEN "RuntimeError_model_init_returned_none"
    ELSE "ok"

\* lines 104-134: "ok" or the exception __init__ raises
InitCheck(warmup_proportion, model_given, mi) ==
    IF FloatLess(warmup_proportion, Tenths(0)) \/ FloatLess(Tenths(10), warmup_proportion)
    THEN "ValueError_warmup_proportion"
    ELSE IF ~model_given
         THEN IF mi # "None" THEN call_model_init(mi)
              ELSE "RuntimeError_neither_model_nor_model_init"
         ELSE IF mi # "None" THEN "RuntimeError_both_model_and_model_init"
              ELSE "ok"

\* no trainer exists yet
InitNew ==
    /\ train_dataset = "unset" /\ eval_dataset = "unset" /\ column_mapping = "unset"
    /\ loss_class = "unset" /\ metric = "unset" /\ cfg = "unset" /\ labels = "unset"
    /\ model_init = "unset" /\ model = "unset" /\ hp_search_backend = "unset"
    /\ _freeze = "unset"
    /\ sentence_transformer_history = "unset" /\ classifier_history = "unset"
    /\ hp_space_set = FALSE
    /\ pc = "new"
    /\ call = NoCall
    /\ eff = NoEff
    /\ build = NoBuild
    /\ outcome = "none"
    /\ search = NoSearch
    /\ logged = 0
    /\ entry = Snapshot

\* SetFitTrainer(model=..., model_init=..., warmup_proportion=...) with the
\* defaults for the other arguments (train_dataset=None among them); an
\* exception leaves no trainer behind
Construct ==
    /\ pc = "new"
    /\ \E warmup_proportion \in WarmupChoices, model_given \in BOOLEAN,
          mi \in ModelInitArgs, hdh \in BOOLEAN :
         LET r == InitCheck(warmup_proportion, model_given, mi)
         IN  /\ call' = [kind |-> "init", warmup_proportion |-> warmup_proportion,
                         model_given |-> model_given, model_init |-> mi]
             /\ outcome' = r
             /\ IF r # "ok"
                THEN /\ pc' = "no_trainer"
                     /\ UNCHANGED fields
                ELSE /\ pc' = "done"
                     /\ train_dataset' = "None"
                     /\ eval_dataset' = "Std"
                     /\ column_mapping' = "None"
                     /\ loss_class' = "CosineSimilarityLoss"
                     /\ metric' = "str"
                     /\ cfg' = [num_epochs |-> DefaultNumEpochs,
                                batch_size |-> DefaultBatchSize,
                                learning_rate |-> DefaultLearningRate,
                                num_iterations |-> 1]
                     /\ labels' = DefaultLabels
                     /\ model_init' = mi
                     /\ model' = NewModel(hdh, 0)
                     /\ hp_search_backend' = "None"
                     /\ _freeze' = TRUE
                     /\ sentence_transformer_history' = EmptyHistory
                     /\ classifier_history' = EmptyHistory
                     /\ UNCHANGED hp_space_set
    /\ UNCHANGED <<eff, build, search, logged, entry>>

\* construction, then searches and train() calls with trials on the trainer
NextInit ==
    \/ Construct
    \/ Train \/ HyperparameterSearch \/ SearchTrialTrain
    \/ TrainHpSetup \/ TrainCheckDataset
    \/ RaiseThroughSearch \/ ReturnToCaller

SpecInit == InitNew /\ [][NextInit]_vars

(***************************************************************************)
(* Properties.                                                             *)
(***************************************************************************)
TrainCall == call.kind = "train"
PastValidation == call.progress \in {"validated", "line405", "line492"}
PastLine405 == call.progress \in {"line405", "line492"}
PastLine492 == call.progress = "line492"

Histories ==
    <<sentence_transformer_history.train, sentence_transformer_history.test,
      classifier_history.train, classifier_history.test>>

\* C2: the four history sequences are append-only: every step of every call
\* leaves each sequence a prefix of its new value.
C2_AppendOnly ==
    [][\A i \in 1..4 : IsPrefix(Histories[i], Histories'[i])]_vars

\* one entry more at the end of `after`, `before` kept
AppendedOne(before, after) ==
    Len(after) = Len(before) + 1 /\ IsPrefix(before, after)

\* C3: during body training a step changes at most the body history, and then
\* by one entry appended to one of its sequences (to `train` when the step is
\* a record-train call, which advances the step counter); during head training
\* likewise for the head history; no step of evaluate() changes a history.
C3_IndependentHistories ==
    [][ /\ pc \in {"b_sampler", "b_pairs", "b_loss", "b_fit"} =>
             /\ classifier_history' = classifier_history
             /\ \/ sentence_transformer_history' = sentence_transformer_history
                \/ /\ build'.steps = build.steps + 1
                   /\ AppendedOne(sentence_transformer_history.train,
                                  sentence_transformer_history'.train)
                   /\ sentence_transformer_history'.test
                        = sentence_transformer_history.test
                \/ /\ build'.steps = build.steps
                   /\ AppendedOne(sentence_transformer_history.test,
                                  sentence_transformer_history'.test)
                   /\ sentence_transformer_history'.train
                        = sentence_transformer_history.train
        /\ pc = "h_fit" =>
             /\ sentence_transformer_history' = sentence_transformer_history
             /\ \/ classifier_history' = classifier_history
                \/ /\ build'.steps = build.steps + 1
                   /\ AppendedOne(classifier_history.train, classifier_history'.train)
                   /\ classifier_history'.test = classifier_history.test
                \/ /\ build'.steps = build.steps
                   /\ AppendedOne(classifier_history.test, classifier_history'.test)
                   /\ classifier_history'.train = classifier_history.train
        /\ pc \in {"e_validate", "e_predict", "e_metric"} =>
             /\ sentence_transformer_history' = sentence_transformer_history
             /\ classifier_history' = classifier_history
      ]_vars

\* both phases of one call have recorded into their own history
C3_Witness ==
    /\ pc = "h_fit"
    /\ Len(sentence_transformer_history.train) >= 1
    /\ Len(classifier_history.train) >= 1

\* line 529: the dataset evaluate() works on
EvalTarget == IF call.dataset # "None" THEN call.dataset ELSE eval_dataset

\* C4: on datasets with neither a "text" nor a "label" column, the validation
\* step of train() and of evaluate() raises the schema error when no
\* column_mapping is configured; with a column_mapping onto both "text" and
\* "label" the same calls get past column handling for every dataset they read
\* (train() reads train_dataset and eval_dataset, evaluate() its target).
C4_MappingEliminatesSchemaError ==
    [][ /\ (pc = "t_validate" /\ train_dataset = "Raw" /\ column_mapping = "None")
             => (pc' = "done" /\ outcome' = "ValueError_missing_columns")
        /\ (pc = "e_validate" /\ EvalTarget = "Raw" /\ column_mapping = "None")
             => (pc' = "done" /\ outcome' = "ValueError_missing_columns")
        /\ (pc \in {"t_validate", "t_eval_cols"} /\ train_dataset = "Raw"
              /\ eval_dataset = "Raw" /\ column_mapping = "Good")
             => pc' # "done"
        /\ (pc = "e_validate" /\ EvalTarget = "Raw" /\ column_mapping = "Good")
             => pc' # "done"
      ]_vars

OverrideFields == {"num_epochs", "batch_size", "learning_rate"}

\* C5: when train() has resolved its overrides (lines 401-403), each of
\* num_epochs, batch_size and learning_rate is the override unless the override
\* is None, and the configured value only then.
C5_OverrideUnlessNone ==
    (TrainCall /\ pc = "t_body_if") =>
        \A f \in OverrideFields :
            eff[f] = IF call.ov[f] # None THEN call.ov[f] ELSE cfg[f]

\* C6: a train() call without a trial never changes the configured num_epochs,
\* batch_size and learning_rate, whatever overrides it is given: they stay as
\* constructed over any sequence of such calls, and a call without overrides
\* resolves to exactly the configured values.
C6_OverridesLastOnlyForTheCall ==
    /\ \A f \in OverrideFields : cfg[f] = entry.cfg[f]
    /\ cfg.num_epochs = DefaultNumEpochs
    /\ cfg.batch_size = DefaultBatchSize
    /\ cfg.learning_rate = DefaultLearningRate
    /\ (TrainCall /\ pc = "t_body_if" /\ call.ov = NoOverrides) =>
           \A f \in OverrideFields : eff[f] = cfg[f]

\* a train() call has returned after running with overridden num_epochs and
\* learning_rate
C6_Witness ==
    /\ TrainCall /\ pc = "done" /\ outcome = "ok"
    /\ eff.num_epochs # cfg.num_epochs
    /\ eff.learning_rate # cfg.learning_rate

\* C7: a train() call on a trainer whose train_dataset is None ends with the
\* missing-train_dataset error, and at no point of the call has a
\* configuration field changed since the call began, has the model been
\* replaced, has a training phase started or has a history more entries than
\* when the call began.
C7_NoWorkBeforeMissingDatasetError ==
    (TrainCall /\ train_dataset = "None") =>
        /\ pc = "done" => outcome = "ValueError_no_train_dataset"
        /\ cfg = entry.cfg
        /\ model = entry.model
        /\ ~call.body_ran /\ ~call.head_ran
        /\ Len(sentence_transformer_history.train) <= Len(entry.st.train)
        /\ Len(sentence_transformer_history.test) <= Len(entry.st.test)
        /\ Len(classifier_history.train) <= Len(entry.cls.train)
        /\ Len(classifier_history.test) <= Len(entry.cls.test)

\* a train() call whose body phase has started, by the path line 414 chose
LabelGroupedPath == TrainCall /\ call.body_ran /\ loss_class \in LabelGroupedLosses
PairwisePath == TrainCall /\ call.body_ran /\ loss_class \notin LabelGroupedLosses

C9_BatchSizeCappedPartialDropped ==
    (LabelGroupedPath /\ "train" \in build.loaders) =>
        LET n  == build.sampler_len
            bs == eff.batch_size
        IN  /\ n = SamplerLen(labels, DefaultSamplesPerLabel)
            /\ bs = IF build.requested <= n THEN build.requested ELSE n
            /\ bs >= 1
            /\ build.num_batches * bs <= n
            /\ n < (build.num_batches + 1) * bs
            /\ build.consumed = build.epoch * build.num_batches * bs
            /\ build.consumed % bs = 0

\* an epoch has run on the label-grouped path with a batch size that does not
\* divide the number of examples: the trailing partial batch was dropped
C9_Witness ==
    /\ LabelGroupedPath /\ "train" \in build.loaders
    /\ build.sampler_len % eff.batch_size # 0
    /\ build.epoch >= 1
    /\ build.consumed < build.sampler_len

\* C10: on the pairwise path the pairs built so far are those of the passes
\* run so far, each pass adding PairsPerPass to the earlier ones, and the
\* training loader is built after exactly num_iterations passes; on the
\* label-grouped path no pass is run and the training examples are the
\* examples of the dataset, whatever num_iterations is.
C10_PairPassesAccumulate ==
    /\ PairwisePath =>
         /\ build.passes <= cfg.num_iterations
         /\ build.train_examples = build.passes * PairsPerPass(SumSeq(labels))
         /\ "train" \in build.loaders => build.passes = cfg.num_iterations
    /\ LabelGroupedPath =>
         /\ build.passes = 0
         /\ pc # "b_pairs"
         /\ "train" \in build.loaders =>
              /\ build.train_examples = SumSeq(labels)
              /\ build.num_batches =
                   build.sampler_len \div eff.batch_size

\* the training loader of the pairwise path has been built from the pairs of
\* two passes
C10_Witness ==
    /\ PairwisePath /\ "train" \in build.loaders
    /\ cfg.num_iterations = 2 /\ build.passes = 2
    /\ build.train_examples = 2 * PairsPerPass(SumSeq(labels))

ApplyCall == call.kind = "apply_hyperparameters"

\* the value int() or float() gives for a number or a numeric literal
CoercedTwice(type, value) ==
    IF type = "int" THEN 2 * (value.twice \div 2) ELSE value.twice

\* the suggested value can be converted to the type of the field's value
Coercible(old_attr, value) ==
    \/ old_attr.type = "NoneType"
    \/ value.type # "str"
    \/ value.lit = "int"
    \/ value.lit = "float" /\ old_attr.type = "float"

\* every key of the call's params that names a field suggests a value that can
\* be converted to the type of that field's value
AllCoercible ==
    \A i \in DOMAIN call.params :
        call.params[i][1] \in DOMAIN entry.cfg =>
            Coercible(entry.cfg[call.params[i][1]], call.params[i][2])

\* the call's params hold a key that names no field of the trainer
NamesNoField ==
    \E i \in DOMAIN call.params : call.params[i][1] \notin DOMAIN entry.cfg

\* C11: after apply_hyperparameters(params) with convertible values, every
\* key naming a field whose value was not None has the type the field had and
\* the suggested number; and on a trainer whose model_init takes no argument
\* a call whose params hold a key naming no field completes, no field exists
\* that did not exist before, and the keys naming fields are applied.
C11_ApplySetsCoercedFields ==
    (ApplyCall /\ pc = "done" /\ AllCoercible) =>
        /\ (model_init = "arity0" /\ NamesNoField) =>
             /\ outcome = "ok"
             /\ DOMAIN cfg = DOMAIN entry.cfg
        /\ outcome = "ok" =>
             \A i \in DOMAIN call.params :
                 LET key == call.params[i][1]
                     value == call.params[i][2]
                 IN  (key \in DOMAIN entry.cfg /\ entry.cfg[key].type # "NoneType") =>
                       /\ cfg[key].type = entry.cfg[key].type
                       /\ cfg[key].twice = CoercedTwice(cfg[key].type, value)

SearchCall == call.kind = "search"
UnsupportedBackends == BackendChoices \ {"None", "optuna"}
SearchErrors ==
    {"RuntimeError_no_model_init", "RuntimeError_only_optuna",
     "ValueError_not_a_backend", "RuntimeError_optuna_not_installed"}

\* C12: a hyperparameter_search() call on a trainer without model_init, or
\* with a backend other than the supported one, raises in its first step: no
\* trial's train() or evaluate() is started and the model is the one the
\* trainer had; and a search call that has ended has no trial running.
C12_SearchFatalBeforeTrials ==
    [][ /\ (pc = "idle" /\ call'.kind = "search"
              /\ (model_init = "None" \/ call'.backend \in UnsupportedBackends))
             => /\ pc' = "done"
                /\ outcome' \in SearchErrors
                /\ ~search'.active
                /\ model' = model
        /\ (SearchCall /\ pc = "done" /\ outcome \in SearchErrors)
             => (~search.active /\ call'.kind \notin {"train", "evaluate"})
      ]_vars

\* hyperparameter_search() has raised on a trainer without model_init
C12_Witness ==
    /\ SearchCall /\ pc = "done"
    /\ model_init = "None"
    /\ outcome = "RuntimeError_no_model_init"
    /\ model = entry.model

InitCall == call.kind = "init"
ModelInitErrors ==
    {"RuntimeError_model_init_arguments", "RuntimeError_model_init_returned_none"}

\* __init__ has got as far as obtaining the model from model_init
InitObtainsModel ==
    /\ InitCall /\ pc \in {"done", "no_trainer"}
    /\ outcome # "ValueError_warmup_proportion"
    /\ ~call.model_given /\ call.model_init # "None"

\* a train() call has applied a trial's hyperparameters as far as line 226
TrialObtainsModel ==
    /\ TrainCall /\ call.hp_applied /\ pc # "t_hp"
    /\ outcome \notin {"AttributeError_hp_space", "TypeError_number_of_arguments"}

\* C13: whenever the trainer obtains a model from model_init, at construction
\* or when a trial's hyperparameters are applied: a model_init that returns
\* None or takes more than one argument ends the call with a model-
\* initialisation error and no training phase has started, and a model_init
\* of zero or one argument returning a model is accepted and gives the
\* trainer a fresh model.
C13_ModelInitContract ==
    /\ InitObtainsModel =>
         IF call.model_init \in {"arity0", "arity1"}
         THEN pc = "done" /\ outcome = "ok"
         ELSE pc = "no_trainer" /\ outcome \in ModelInitErrors
    /\ TrialObtainsModel =>
         /\ ~call.body_ran /\ ~call.head_ran
         /\ IF model_init \in {"arity0", "arity1"}
            THEN /\ outcome \in {"running", "ok", "ValueError_no_train_dataset"}
                 /\ model.gen = entry.model.gen + 1
            ELSE /\ pc = "done" /\ outcome \in ModelInitErrors
                 /\ model = entry.model

\* the number lies in the interval [0, 1]
InUnitInterval(w) == ~w.nan /\ 0 <= w.tenths /\ w.tenths <= 10

\* the call supplied a model and no model_init, or no model and a model_init
\* of zero or one argument that returns a model
OneWorkingModelSource ==
    \/ call.model_given /\ call.model_init = "None"
    \/ ~call.model_given /\ call.model_init \in {"arity0", "arity1"}
NeitherOrBoth == call.model_given = (call.model_init # "None")

ConfigurationErrors ==
    {"ValueError_warmup_proportion", "RuntimeError_neither_model_nor_model_init",
     "RuntimeError_both_model_and_model_init"} \cup ModelInitErrors

\* C14: a constructor call fails with a configuration error when its
\* warmup_proportion is not in [0, 1] and when neither or both of model and
\* model_init are supplied; with warmup_proportion in [0, 1] and exactly one
\* working source of the model it returns a trainer whose freeze switch is
\* true, whose search backend is None and whose histories are empty.
C14_ConstructionChecks ==
    (InitCall /\ pc \in {"done", "no_trainer"}) =>
        /\ ~InUnitInterval(call.warmup_proportion) =>
             (pc = "no_trainer" /\ outcome \in ConfigurationErrors)
        /\ NeitherOrBoth =>
             (pc = "no_trainer" /\ outcome \in ConfigurationErrors)
        /\ (InUnitInterval(call.warmup_proportion) /\ OneWorkingModelSource) =>
             /\ pc = "done" /\ outcome = "ok"
             /\ _freeze = TRUE
             /\ hp_search_backend = "None"
             /\ sentence_transformer_history = EmptyHistory
             /\ classifier_history = EmptyHistory

EvaluateCall == call.kind = "evaluate"

\* C15: an evaluate() call on a trainer whose metric is neither a string
\* nor a callable never gets past the model's predict, and does not return a
\* result.
C15_MetricCheckedBeforePredict ==
    (EvaluateCall /\ metric = "other") =>
        /\ pc # "e_metric"
        /\ outcome # "ok"

FreezeCalls == {"freeze", "unfreeze"}

\* C16: a freeze() or unfreeze() call on a model without a differentiable
\* head raises the capability error and leaves the freeze switch and the model
\* (its head-frozen and body-frozen switches included) as they were, whatever
\* calls came before it.
C16_FreezeNeedsDifferentiableHead ==
    [][(pc = "idle" /\ call'.kind \in FreezeCalls /\ ~model.has_differentiable_head) =>
          /\ pc' = "done"
          /\ outcome' = "ValueError_no_differentiable_head"
          /\ _freeze' = _freeze
          /\ model' = model
          /\ model'.head_frozen = model.head_frozen
          /\ model'.body_frozen = model.body_frozen
      ]_vars

\* unfreeze() has raised on a model without a differentiable head, after an
\* earlier call on the same trainer
C16_Witness ==
    /\ call.kind = "unfreeze" /\ pc = "done"
    /\ ~model.has_differentiable_head
    /\ outcome = "ValueError_no_differentiable_head"
    /\ _freeze
    /\ Len(sentence_transformer_history.train) > 0

\* the states of the trainer during a train() call, by position in the method
ColumnValidating == {"t_hp", "t_check", "t_validate"}
Validated == {"t_eval_cols", "t_resolve", "t_body_if"}
BodyTraining == {"b_sampler", "b_pairs", "b_loss", "b_fit"}
HeadTraining == {"h_fit"}
TrainStage(p) ==
    CASE p \in ColumnValidating -> 1
      [] p \in Validated        -> 2
      [] p \in BodyTraining     -> 3
      [] p = "t_head_if"        -> 4
      [] p \in HeadTraining     -> 5
      [] p = "done"             -> 6
      [] OTHER                  -> 0
ValidationErrors ==
    {"ValueError_dict_train_split", "ValueError_dict_splits", "ValueError_missing_columns",
     "ValueError_mapping_incomplete", "ValueError_mapping_columns_absent"}
EntryHistories == <<entry.st.train, entry.st.test, entry.cls.train, entry.cls.test>>

\* C17: every train() call goes through column validation, body training,
\* head training and back to idle in that order: no step of a call goes back to
\* an earlier stage, a phase is entered only after the training columns were
\* validated, the head phase is entered only from the end of the body stage and
\* no body step follows it, and a failed validation ends the call at once with
\* no phase run and no history entry appended, after which the trainer is idle
\* again (or, in a trial, back in the search that called train()).
C17_TrainStagesInOrder ==
    [][ /\ (TrainCall /\ TrainCall') => TrainStage(pc') >= TrainStage(pc)
        /\ (TrainCall' /\ TrainStage(pc') \in 3..5) => PastValidation'
        /\ (TrainCall' /\ call'.body_ran /\ ~call.body_ran) =>
              (pc = "t_body_if" /\ PastValidation /\ ~call.head_ran)
        /\ (TrainCall' /\ pc' \in BodyTraining) => ~call'.head_ran
        /\ (TrainCall' /\ pc' \in HeadTraining) =>
              (pc \in {"t_head_if"} \cup HeadTraining /\ call'.head_ran)
        /\ (pc = "t_validate"
            /\ validate_column_mapping(column_mapping, train_dataset) # "ok") =>
              /\ pc' = "done"
              /\ outcome' = validate_column_mapping(column_mapping, train_dataset)
              /\ ~call'.body_ran /\ ~call'.head_ran
              /\ Histories' = Histories
        /\ (TrainCall /\ pc = "done" /\ outcome \in ValidationErrors) =>
              /\ ~call.body_ran /\ ~call.head_ran
              /\ \A i \in 1..4 : Len(Histories[i]) <= Len(EntryHistories[i])
        /\ (TrainCall /\ pc = "done") =>
              /\ Histories' = Histories
              /\ pc' = "idle" \/ call'.kind = "search"
      ]_vars

\* a train() call has ended in a validation error of a column mapping
C17_Witness ==
    /\ TrainCall /\ pc = "done"
    /\ outcome = "ValueError_mapping_columns_absent"
    /\ ~PastValidation
    /\ Histories = EntryHistories

\* a hyperparameter_search() call has begun and has neither returned nor raised
SearchInProgress == search.active \/ (SearchCall /\ pc # "done")

\* C18: whenever no hyperparameter_search() call is in progress (after
\* construction and after every search call, returned or raised)
\* hp_search_backend is None, and so a train() call made outside a search
\* applies no hyperparameters: it changes no configuration field and does not
\* replace the model.
C18_BackendNoneOutsideSearch ==
    /\ ~SearchInProgress => hp_search_backend = "None"
    /\ (TrainCall /\ ~SearchInProgress) =>
          /\ ~call.hp_applied
          /\ cfg = entry.cfg
          /\ model = entry.model

====
